---- MODULE Spec2Model ----
(***************************************************************************)
(* Model of wallet/core/src/tx/generator/pending.rs: PendingTransaction,   *)
(* a shared handle (Arc<PendingTransactionInner>) used concurrently by     *)
(* several holders.  Shared state: the Mutex<SignableTransaction>, the     *)
(* AtomicBool is_committed and the fields fixed by try_new.                *)
(*                                                                         *)
(* Granularity: every atomic load/store, every mutex acquisition and       *)
(* release, and every call to / return from an external capability         *)
(* (signer, UTXO context, RPC transport) is a separate step.  Copying the  *)
(* payload (clone, assignment) proceeds input by input; it is the mutex    *)
(* that makes it indivisible.  External capabilities return Ok or Err.     *)
(***************************************************************************)
EXTENDS Integers, Sequences, FiniteSets, TLC

\* ---------------------------------------------------------------- bounds
MaxCalls == 2
NumInputs == 2

Callers == {"c1", "c2"}
Keys == {"k1", "k2"}
NoOne == "nobody"
NoSig == "unsigned"
Unset == "unset"

Inputs == 1..NumInputs
Owner(i) == IF i % 2 = 1 THEN "k1" ELSE "k2"

\* ------------------------------------------------------- external values
SignerErrors == {"crypto"}
NotifierErrors == {"utxo"}
TransportErrors == {"rejected"}
NetworkIds == {"abc"}

Ok(v) == [kind |-> "Ok", val |-> v]
Err(from, e) == [kind |-> "Err", val |-> <<from, e>>]
Panic(msg) == [kind |-> "Panic", val |-> msg]
NoResult == [of |-> "none", call |-> 0, kind |-> "None", val |-> "none"]
Unit == "unit"

IsOk(r) == r.kind = "Ok"

VARIABLES
    signable_tx,    \* inner.signable_tx: the payload behind the Mutex
    mutex,          \* holder of the Mutex guarding signable_tx, or NoOne
    is_committed,   \* inner.is_committed (AtomicBool)
    generator,      \* inner.generator: which optional capabilities are bound
    fields,         \* the fields of inner fixed by try_new
    pc,             \* position of each caller inside its current call
    op,             \* the call each caller is executing and its argument
    local,          \* each caller's local payload (clone / signed_tx / source of rpc_transaction)
    idx,            \* next input to copy in the current clone or assignment
    result,         \* what each caller's last call returned
    cid,            \* number of the call each caller is executing
    calls,          \* number of calls started so far
    notified,       \* calls that invoked handle_outgoing_transaction, in order
    submitted,      \* wire projections handed to submit_transaction, in order
    hist            \* history: payloads produced, sign calls completed, submit calls

vars == <<signable_tx, mutex, is_committed, generator, fields, pc, op, local, idx,
          result, cid, calls, notified, submitted, hist>>

shared == <<signable_tx, mutex, is_committed>>
immut == <<generator, fields>>
extern == <<notified, submitted>>

\* ------------------------------------------------------------- payloads
Unsigned == [i \in Inputs |-> NoSig]
Blank == [i \in Inputs |-> Unset]

\* sign_with_multiple_v2: every input whose owner's key is supplied gets
\* that key's signature, the others are left as they are
SignWithMultiple(tx, privkeys) ==
    [i \in Inputs |-> IF Owner(i) \in privkeys THEN Owner(i) ELSE tx[i]]

\* Signer::try_sign(tx, addresses): signs the inputs owned by the addresses
SignerSign(tx, addresses) ==
    [i \in Inputs |-> IF Owner(i) \in addresses THEN Owner(i) ELSE tx[i]]

\* SignableTransaction::id
TxId(tx) == <<"TransactionId", tx>>

\* From<&Transaction> for RpcTransaction
RpcOf(tx) == <<"RpcTransaction", tx>>

\* ------------------------------------------------------------------ Init
\* try_new: the values the generator passes; payment_value is an Option,
\* <<v>> for Some(v) and <<>> for None
FieldChoices ==
    { [payment_value |-> <<900>>, change_value |-> 0, aggregate_input_value |-> 1000,
       aggregate_output_value |-> 900, fees |-> 100, is_final |-> TRUE,
       utxo_entries |-> Inputs, addresses |-> Keys],
      [payment_value |-> <<>>, change_value |-> 50, aggregate_input_value |-> 200,
       aggregate_output_value |-> 150, fees |-> 50, is_final |-> FALSE,
       utxo_entries |-> Inputs, addresses |-> Keys] }

NoOp == [name |-> "none", keys |-> {}]

\* history variables, read by the properties only:
\*   produced  the payload of try_new and every payload a signing call computed
\*   signs     the signing calls that wrote their result back, in order
\*   submits   number of try_submit calls started
\*   returned  some try_submit call has returned (Ok or Err)
\*   late      the try_submit calls started after some try_submit had returned
\*   atReturn  notifier / transport invocation counts when the first one returned
\*   acked     the calls whose handle_outgoing_transaction returned Ok
\*   replies   what submit_transaction answered, per call
\*   nacked    the calls whose handle_outgoing_transaction returned Err
\*   atCommit  the payload stored when is_committed was first set
\*   ctor      the values try_new was given
HistInit == [produced |-> {Unsigned}, signs |-> <<>>, submits |-> 0,
             returned |-> FALSE, late |-> {}, atReturn |-> <<0, 0>>,
             acked |-> {}, replies |-> <<>>,
             nacked |-> {}, atCommit |-> Blank, ctor |-> fields]

Init ==
    /\ signable_tx = Unsigned
    /\ mutex = NoOne
    /\ is_committed = FALSE
    /\ generator \in [signer : BOOLEAN, utxo_context : BOOLEAN]
    /\ fields \in FieldChoices
    /\ pc = [p \in Callers |-> "idle"]
    /\ op = [p \in Callers |-> NoOp]
    /\ local = [p \in Callers |-> Blank]
    /\ idx = [p \in Callers |-> 0]
    /\ result = [p \in Callers |-> NoResult]
    /\ cid = [p \in Callers |-> 0]
    /\ calls = 0
    /\ notified = <<>>
    /\ submitted = <<>>
    /\ hist = HistInit

\* ------------------------------------------------------- read accessors
\* pure reads of the fields fixed by try_new; they take no lock
addresses == fields.addresses
utxo_entries == fields.utxo_entries

fees == fields.fees
input_aggregate_value == fields.aggregate_input_value
output_aggregate_value == fields.aggregate_output_value
payment_value == fields.payment_value
change_value == fields.change_value
is_final == fields.is_final

\* a negation that was dropped
is_batch_same == fields.is_final

is_batch == ~fields.is_final

\* ------------------------------------------------------------ helpers
\* a lock that excludes nobody
CanLockAlways(p) == TRUE

\* Mutex::lock: blocks until nobody holds the mutex
CanLock(p) == mutex = NoOne

\* a gate that never fires
CommitGateOff(flag) == FALSE

\* commit(): is_committed.load(SeqCst).then(|| panic!(..))
CommitGate(flag) == flag

\* a store of the wrong value
CommitStoreFalse == FALSE

\* commit(): is_committed.store(true, SeqCst)
CommitStoreValue == TRUE

\* a commit that is rolled back when the notifier fails
FlagAfterNotifyRollback(flag, outcome) == IF IsOk(outcome) THEN flag ELSE FALSE

\* commit(): handle_outgoing_transaction(self).await? leaves the flag alone
FlagAfterNotify(flag, outcome) == flag

\* a commit that is rolled back when the transport fails
FlagAfterTransportRollback(flag, outcome) == IF IsOk(outcome) THEN flag ELSE FALSE

\* try_submit(): submit_transaction(..).await? leaves the flag alone
FlagAfterTransport(flag, outcome) == flag

\* a commit that goes on to the transport whatever the notifier answered
AfterNotifyIgnoreError(outcome) == "lock"

\* commit(): where the caller goes once the notifier has answered
AfterNotify(outcome) == IF IsOk(outcome) THEN "lock" ELSE "idle"

\* an error that is swallowed instead of propagated
PropagateSwallow(outcome) == Ok(Unit)

\* the `?` of try_submit / try_sign: From conversion of the capability's error
Propagate(outcome) ==
    IF outcome.kind = "Err"
       THEN [kind |-> "Err", val |-> <<"wallet::Error">> \o outcome.val]
       ELSE outcome

DoubleCommit == Panic("PendingTransaction::commit() called multiple times")
NoSigner == Panic("no signer in tx generator")

Begin(p, o) ==
    /\ pc[p] = "idle"
    /\ calls < MaxCalls
    /\ calls' = calls + 1
    /\ cid' = [cid EXCEPT ![p] = calls + 1]
    /\ op' = [op EXCEPT ![p] = o]

\* the call of p ends with r; a panic unwinds the caller's task
End(p, name, c, r) ==
    /\ pc' = [pc EXCEPT ![p] = IF r.kind = "Panic" THEN "panicked" ELSE "idle"]
    /\ result' = [result EXCEPT ![p] = [of |-> name, call |-> c, kind |-> r.kind, val |-> r.val]]
    /\ local' = [local EXCEPT ![p] = Blank]
    /\ idx' = [idx EXCEPT ![p] = 0]

Goto(p, l) == pc' = [pc EXCEPT ![p] = l]

SubmitReturned(h) ==
    [h EXCEPT !.returned = TRUE,
              !.atReturn = IF h.returned THEN @ ELSE <<Len(notified), Len(submitted)>>]

\* ------------------------------------------------------------ try_submit
\* try_submit -> commit(): the load of is_committed and the panic
CallSubmit(p) ==
    /\ Begin(p, [name |-> "submit", keys |-> {}])
    /\ hist' = [hist EXCEPT !.submits = @ + 1,
                            !.late = IF hist.returned THEN @ \cup {calls + 1} ELSE @]
    /\ IF CommitGate(is_committed)
          THEN End(p, "submit", calls + 1, DoubleCommit)
          ELSE /\ Goto(p, "commit_store")
               /\ UNCHANGED <<result, local, idx>>
    /\ UNCHANGED <<shared, immut, extern>>

\* a commit that treats a generator without UTXO context as an error
CommitStoreNeedsNotifier(p) ==
    /\ pc[p] = "commit_store"
    /\ is_committed' = CommitStoreValue
    /\ IF generator.utxo_context
          THEN /\ Goto(p, "notify_call")
               /\ hist' = [hist EXCEPT !.atCommit = IF is_committed THEN @ ELSE signable_tx]
               /\ UNCHANGED <<op, local, idx, result>>
          ELSE /\ End(p, "submit", cid[p], Err("generator", "no utxo context"))
               /\ op' = [op EXCEPT ![p] = NoOp]
               /\ hist' = SubmitReturned(hist)
    /\ UNCHANGED <<signable_tx, mutex, immut, cid, calls, extern>>

\* commit(): the store of is_committed
CommitStore(p) ==
    /\ pc[p] = "commit_store"
    /\ is_committed' = CommitStoreValue
    /\ Goto(p, IF generator.utxo_context THEN "notify_call" ELSE "lock")
    /\ hist' = [hist EXCEPT !.atCommit = IF is_committed THEN @ ELSE signable_tx]
    /\ UNCHANGED <<signable_tx, mutex, immut, op, local, idx, result, cid, calls, extern>>

\* commit(): utxo_context.handle_outgoing_transaction(self) is invoked
NotifyCall(p) ==
    /\ pc[p] = "notify_call"
    /\ notified' = Append(notified, cid[p])
    /\ Goto(p, "notify_wait")
    /\ UNCHANGED <<shared, immut, op, local, idx, result, cid, calls, submitted, hist>>

\* commit(): handle_outgoing_transaction(self).await? returns
NotifyReturn(p) ==
    /\ pc[p] = "notify_wait"
    /\ \E outcome \in {Ok(Unit)} \cup {Err("utxo_context", e) : e \in NotifierErrors} :
          /\ is_committed' = FlagAfterNotify(is_committed, outcome)
          /\ IF AfterNotify(outcome) = "idle"
                THEN /\ End(p, "submit", cid[p], Propagate(outcome))
                     /\ op' = [op EXCEPT ![p] = NoOp]
                     /\ hist' = SubmitReturned([hist EXCEPT !.nacked = @ \cup {cid[p]}])
                ELSE /\ Goto(p, AfterNotify(outcome))
                     /\ hist' = [hist EXCEPT !.acked = IF IsOk(outcome) THEN @ \cup {cid[p]} ELSE @]
                     /\ UNCHANGED <<op, local, idx, result>>
    /\ UNCHANGED <<signable_tx, mutex, immut, cid, calls, extern>>

\* rpc_transaction() inside try_submit: the guard is dropped, the wire
\* projection is built
RpcUnlock(p) ==
    /\ pc[p] = "clone" /\ idx[p] > NumInputs /\ op[p].name = "submit"
    /\ mutex' = NoOne
    /\ Goto(p, "transport_call")
    /\ UNCHANGED <<signable_tx, is_committed, immut, op, local, idx, result, cid, calls, extern, hist>>

\* a submission of the payload as it was when the instance was committed
TransportCallStale(p) ==
    /\ pc[p] = "transport_call"
    /\ submitted' = Append(submitted, [call |-> cid[p], rpc |-> RpcOf(hist.atCommit), allow_orphan |-> TRUE])
    /\ Goto(p, "transport_wait")
    /\ UNCHANGED <<shared, immut, op, local, idx, result, cid, calls, notified, hist>>

\* try_submit(): rpc.submit_transaction(rpc_transaction, true) is invoked
TransportCall(p) ==
    /\ pc[p] = "transport_call"
    /\ submitted' = Append(submitted, [call |-> cid[p], rpc |-> RpcOf(local[p]), allow_orphan |-> TRUE])
    /\ Goto(p, "transport_wait")
    /\ UNCHANGED <<shared, immut, op, local, idx, result, cid, calls, notified, hist>>

\* try_submit(): Ok(rpc.submit_transaction(..).await?)
TransportReturn(p) ==
    /\ pc[p] = "transport_wait"
    /\ \E outcome \in {Ok(id) : id \in NetworkIds} \cup {Err("rpc", e) : e \in TransportErrors} :
          /\ is_committed' = FlagAfterTransport(is_committed, outcome)
          /\ End(p, "submit", cid[p], Propagate(outcome))
          /\ hist' = SubmitReturned([hist EXCEPT !.replies =
                                       Append(@, [call |-> cid[p], outcome |-> outcome])])
    /\ op' = [op EXCEPT ![p] = NoOp]
    /\ UNCHANGED <<signable_tx, mutex, immut, cid, calls, extern>>

\* ------------------------------------------------- the mutex and copies
\* signable_tx.lock() of a reader (id, transaction, rpc_transaction,
\* and the clones of try_sign / try_sign_with_keys)
LockForRead(p) ==
    /\ pc[p] = "lock"
    /\ CanLock(p)
    /\ mutex' = p
    /\ idx' = [idx EXCEPT ![p] = 1]
    /\ Goto(p, "clone")
    /\ UNCHANGED <<signable_tx, is_committed, immut, op, local, result, cid, calls, extern, hist>>

\* one input of the payload is read under the guard
Clone(p) ==
    /\ pc[p] = "clone" /\ idx[p] <= NumInputs
    /\ local' = [local EXCEPT ![p][idx[p]] = signable_tx[idx[p]]]
    /\ idx' = [idx EXCEPT ![p] = @ + 1]
    /\ UNCHANGED <<shared, immut, pc, op, result, cid, calls, extern, hist>>

\* signable_tx.lock() of the write-back of try_sign / try_sign_with_keys
LockForWrite(p) ==
    /\ pc[p] = "write_lock"
    /\ CanLock(p)
    /\ mutex' = p
    /\ idx' = [idx EXCEPT ![p] = 1]
    /\ Goto(p, "assign")
    /\ UNCHANGED <<signable_tx, is_committed, immut, op, local, result, cid, calls, extern, hist>>

\* *guard = signed_tx: one input of the payload is overwritten
Assign(p) ==
    /\ pc[p] = "assign" /\ idx[p] <= NumInputs
    /\ signable_tx' = [signable_tx EXCEPT ![idx[p]] = local[p][idx[p]]]
    /\ idx' = [idx EXCEPT ![p] = @ + 1]
    /\ UNCHANGED <<mutex, is_committed, immut, pc, op, local, result, cid, calls, extern, hist>>

\* a write-back that also resets the fees of the instance
WriteUnlockResetsFees(p) ==
    /\ pc[p] = "assign" /\ idx[p] > NumInputs
    /\ mutex' = NoOne
    /\ fields' = [fields EXCEPT !.fees = 0]
    /\ hist' = [hist EXCEPT !.signs = Append(@, [name |-> op[p].name, keys |-> op[p].keys,
                                                  call |-> cid[p]])]
    /\ End(p, op[p].name, cid[p], Ok(Unit))
    /\ op' = [op EXCEPT ![p] = NoOp]
    /\ UNCHANGED <<signable_tx, is_committed, generator, cid, calls, extern>>

\* end of the write-back statement: the guard is dropped, Ok(()) returned
WriteUnlock(p) ==
    /\ pc[p] = "assign" /\ idx[p] > NumInputs
    /\ mutex' = NoOne
    /\ hist' = [hist EXCEPT !.signs = Append(@, [name |-> op[p].name, keys |-> op[p].keys,
                                                  call |-> cid[p]])]
    /\ End(p, op[p].name, cid[p], Ok(Unit))
    /\ op' = [op EXCEPT ![p] = NoOp]
    /\ UNCHANGED <<signable_tx, is_committed, immut, cid, calls, extern>>

\* --------------------------------------------------------------- try_sign
\* try_sign(): generator.signer().as_ref().expect("no signer in tx generator")
CallSign(p) ==
    /\ Begin(p, [name |-> "sign", keys |-> {}])
    /\ IF generator.signer
          THEN /\ Goto(p, "lock")
               /\ UNCHANGED <<result, local, idx>>
          ELSE End(p, "sign", calls + 1, NoSigner)
    /\ UNCHANGED <<shared, immut, extern, hist>>

\* try_sign(): signer.try_sign(clone, addresses) is invoked; the guard is a
\* temporary of the enclosing statement and is still alive
SignerCall(p) ==
    /\ pc[p] = "clone" /\ idx[p] > NumInputs /\ op[p].name = "sign"
    /\ Goto(p, "sign_wait")
    /\ UNCHANGED <<shared, immut, op, local, idx, result, cid, calls, extern, hist>>

\* try_sign(): signer.try_sign(..)? returns, the statement ends and the
\* guard is dropped
SignerReturn(p) ==
    /\ pc[p] = "sign_wait"
    /\ mutex' = NoOne
    /\ \E outcome \in {Ok(SignerSign(local[p], fields.addresses))}
                      \cup {Err("signer", e) : e \in SignerErrors} :
          IF IsOk(outcome)
             THEN /\ local' = [local EXCEPT ![p] = outcome.val]
                  /\ hist' = [hist EXCEPT !.produced = @ \cup {outcome.val}]
                  /\ Goto(p, "write_lock")
                  /\ UNCHANGED <<op, idx, result>>
             ELSE /\ End(p, "sign", cid[p], Propagate(outcome))
                  /\ op' = [op EXCEPT ![p] = NoOp]
                  /\ UNCHANGED hist
    /\ UNCHANGED <<signable_tx, is_committed, immut, cid, calls, extern>>

\* ---------------------------------------------------- try_sign_with_keys
\* a signing call that refuses a committed instance
CallSignWithKeysRejecting(p) ==
    /\ \E privkeys \in (SUBSET Keys) \ {{}} :
          Begin(p, [name |-> "sign_with_keys", keys |-> privkeys])
    /\ IF is_committed
          THEN End(p, "sign_with_keys", calls + 1, Err("pending", "committed"))
          ELSE /\ Goto(p, "lock")
               /\ UNCHANGED <<local, idx, result>>
    /\ UNCHANGED <<shared, immut, extern, hist>>

\* try_sign_with_keys(): entry; is_committed is not consulted
CallSignWithKeys(p) ==
    /\ \E privkeys \in (SUBSET Keys) \ {{}} :
          Begin(p, [name |-> "sign_with_keys", keys |-> privkeys])
    /\ Goto(p, "lock")
    /\ UNCHANGED <<shared, immut, local, idx, result, extern, hist>>

\* a clone whose guard is kept until the end of the function
KeysUnlockKeepsGuard(p) ==
    /\ pc[p] = "clone" /\ idx[p] > NumInputs /\ op[p].name = "sign_with_keys"
    /\ Goto(p, "keys_sign")
    /\ UNCHANGED <<shared, immut, op, local, idx, result, cid, calls, extern, hist>>

\* try_sign_with_keys(): end of `let mutable_tx = ..lock()?.clone();`
KeysUnlock(p) ==
    /\ pc[p] = "clone" /\ idx[p] > NumInputs /\ op[p].name = "sign_with_keys"
    /\ mutex' = NoOne
    /\ Goto(p, "keys_sign")
    /\ UNCHANGED <<signable_tx, is_committed, immut, op, local, idx, result, cid, calls, extern, hist>>

\* try_sign_with_keys(): sign_with_multiple_v2(mutable_tx, privkeys)
KeysSign(p) ==
    /\ pc[p] = "keys_sign"
    /\ local' = [local EXCEPT ![p] = SignWithMultiple(local[p], op[p].keys)]
    /\ hist' = [hist EXCEPT !.produced = @ \cup {SignWithMultiple(local[p], op[p].keys)}]
    /\ Goto(p, "write_lock")
    /\ UNCHANGED <<shared, immut, op, idx, result, cid, calls, extern>>

\* ------------------------------------- id, transaction, rpc_transaction, log
\* id(): signable_tx.lock().unwrap().id()
CallId(p) ==
    /\ Begin(p, [name |-> "id", keys |-> {}])
    /\ Goto(p, "lock")
    /\ UNCHANGED <<shared, immut, local, idx, result, extern, hist>>

\* transaction(): signable_tx.lock().unwrap().tx.clone()
CallTransaction(p) ==
    /\ Begin(p, [name |-> "transaction", keys |-> {}])
    /\ Goto(p, "lock")
    /\ UNCHANGED <<shared, immut, local, idx, result, extern, hist>>

\* rpc_transaction(): signable_tx.lock().unwrap().tx.as_ref().into()
CallRpcTransaction(p) ==
    /\ Begin(p, [name |-> "rpc_transaction", keys |-> {}])
    /\ Goto(p, "lock")
    /\ UNCHANGED <<shared, immut, local, idx, result, extern, hist>>

\* a log that commits the instance on its way
CallLogCommits(p) ==
    /\ Begin(p, [name |-> "log", keys |-> {}])
    /\ Goto(p, "lock")
    /\ is_committed' = TRUE
    /\ UNCHANGED <<signable_tx, mutex, immut, local, idx, result, extern, hist>>

\* log(): log_info!(.., self.rpc_transaction())
CallLog(p) ==
    /\ Begin(p, [name |-> "log", keys |-> {}])
    /\ Goto(p, "lock")
    /\ UNCHANGED <<shared, immut, local, idx, result, extern, hist>>

ReadOps == {"id", "transaction", "rpc_transaction", "log"}

Val(v) == [kind |-> "Val", val |-> v]

\* an id computed once, from the payload of try_new
ReadValueCachedId(name, tx) ==
    CASE name = "id" -> Val(TxId(Unsigned))
      [] name = "transaction" -> Val(tx)
      [] name = "rpc_transaction" -> Val(RpcOf(tx))
      [] name = "log" -> Ok(Unit)

\* what each reader returns from the payload it read under the guard
ReadValue(name, tx) ==
    CASE name = "id" -> Val(TxId(tx))
      [] name = "transaction" -> Val(tx)
      [] name = "rpc_transaction" -> Val(RpcOf(tx))
      [] name = "log" -> Ok(Unit)

\* the guard of a reader is dropped and the value returned
ReadReturn(p) ==
    /\ pc[p] = "clone" /\ idx[p] > NumInputs /\ op[p].name \in ReadOps
    /\ mutex' = NoOne
    /\ End(p, op[p].name, cid[p], ReadValue(op[p].name, local[p]))
    /\ op' = [op EXCEPT ![p] = NoOp]
    /\ UNCHANGED <<signable_tx, is_committed, immut, cid, calls, extern, hist>>

\* ------------------------------------------------------------------ Next
Next ==
    \E p \in Callers :
        \/ CallSubmit(p)
        \/ CommitStore(p)
        \/ NotifyCall(p)
        \/ NotifyReturn(p)
        \/ RpcUnlock(p)
        \/ TransportCall(p)
        \/ TransportReturn(p)
        \/ LockForRead(p)
        \/ Clone(p)
        \/ LockForWrite(p)
        \/ Assign(p)
        \/ WriteUnlock(p)
        \/ CallSign(p)
        \/ SignerCall(p)
        \/ SignerReturn(p)
        \/ CallSignWithKeys(p)
        \/ KeysUnlock(p)
        \/ KeysSign(p)
        \/ CallId(p)
        \/ CallTransaction(p)
        \/ CallRpcTransaction(p)
        \/ CallLog(p)
        \/ ReadReturn(p)

Spec == Init /\ [][Next]_vars

\* the steps a started call takes on its own: everything but the entry of a
\* new call, which is the caller's choice
Step(p) ==
    \/ CommitStore(p)
    \/ NotifyCall(p)
    \/ NotifyReturn(p)
    \/ RpcUnlock(p)
    \/ TransportCall(p)
    \/ TransportReturn(p)
    \/ LockForRead(p)
    \/ Clone(p)
    \/ LockForWrite(p)
    \/ Assign(p)
    \/ WriteUnlock(p)
    \/ SignerCall(p)
    \/ SignerReturn(p)
    \/ KeysUnlock(p)
    \/ KeysSign(p)
    \/ ReadReturn(p)

\* fair scheduling of the callers' tasks; the signer, the notifier and the
\* transport return
FairSpec == Spec /\ \A p \in Callers : WF_vars(Step(p))

\* the same, for an instance whose generator has both capabilities bound
\* (the configuration in which every step of every method can be taken)
BoundInit ==
    /\ Init
    /\ generator = [signer |-> TRUE, utxo_context |-> TRUE]
    /\ fields.is_final

BoundFairSpec == BoundInit /\ [][Next]_vars /\ \A p \in Callers : WF_vars(Step(p))

TypeOK ==
    /\ signable_tx \in [Inputs -> Keys \cup {NoSig}]
    /\ mutex \in Callers \cup {NoOne}
    /\ is_committed \in BOOLEAN
    /\ calls \in 0..MaxCalls


\* ======================================================== properties
SubmitPcs == {"commit_store", "notify_call", "notify_wait", "transport_call", "transport_wait"}
InSubmit(p) == pc[p] \in SubmitPcs \/ (pc[p] \in {"lock", "clone"} /\ op[p].name = "submit")
SignNames == {"sign", "sign_with_keys"}
InSign(p) == pc[p] \notin {"idle", "panicked"} /\ op[p].name \in SignNames

NotifiedBy(c) == {i \in 1..Len(notified) : notified[i] = c}
SubmittedBy(c) == {i \in 1..Len(submitted) : submitted[i].call = c}
RepliesTo(c) == {i \in 1..Len(hist.replies) : hist.replies[i].call = c}

\* C1: however submit calls on one instance interleave, the notifier is
\* invoked at most once and the transport is invoked at most once.
C1_AtMostOneSubmission ==
    /\ Len(notified) <= 1
    /\ Len(submitted) <= 1

\* C2: a submit call started after a submit call has returned aborts with
\* the double-commit panic and invokes neither the notifier nor the
\* transport; when every submit call but the first is such a call, the
\* invocation counts stay what they were when the first returned, at most 1.
C2_SecondSubmitAborts ==
    /\ \A p \in Callers :
          (op[p].name = "submit" /\ cid[p] \in hist.late) =>
              /\ pc[p] = "panicked"
              /\ result[p].call = cid[p]
              /\ result[p].kind = "Panic"
              /\ result[p].val = DoubleCommit.val
    /\ \A c \in hist.late : NotifiedBy(c) = {} /\ SubmittedBy(c) = {}
    /\ (hist.late # {} /\ hist.submits = Cardinality(hist.late) + 1) =>
          /\ <<Len(notified), Len(submitted)>> = hist.atReturn
          /\ Len(notified) <= 1
          /\ Len(submitted) <= 1

C2_Witness ==
    \E p \in Callers :
        /\ cid[p] \in hist.late
        /\ pc[p] = "panicked"
        /\ result[p].of = "submit"
        /\ Len(submitted) = 1
        /\ Len(notified) = 1

\* C3: is_committed starts false, never goes from true to false, and
\* changes only in the store of commit().
C3_CommittedOneWay ==
    /\ is_committed = FALSE
    /\ [][/\ is_committed => is_committed'
          /\ is_committed' # is_committed =>
                \E p \in Callers : pc[p] = "commit_store" /\ pc'[p] # "commit_store"]_vars

C3_Witness ==
    /\ is_committed
    /\ hist.returned
    /\ Len(hist.signs) > 0

\* C4: when a single submit call is made (notifier bound), it does not
\* abort, and if it returns Ok the instance is committed, the notifier was
\* invoked exactly once, exactly one wire projection was forwarded and the
\* returned value is the identifier the transport answered.
C4_SingleSubmit ==
    \A p \in Callers :
        (hist.submits = 1 /\ generator.utxo_context /\ result[p].of = "submit") =>
            /\ result[p].kind # "Panic"
            /\ result[p].kind = "Ok" =>
                  /\ is_committed
                  /\ Len(notified) = 1
                  /\ Len(submitted) = 1
                  /\ submitted[1].call = result[p].call
                  /\ Len(hist.replies) = 1
                  /\ hist.replies[1].outcome.kind = "Ok"
                  /\ result[p].val = hist.replies[1].outcome.val
                  /\ result[p].val \in NetworkIds

C4_Witness ==
    \E p \in Callers :
        /\ hist.submits = 1
        /\ generator.utxo_context
        /\ result[p].of = "submit"
        /\ result[p].kind = "Ok"
        /\ is_committed

\* C5: the notifier is invoked only once is_committed is set; a submit call
\* builds the wire projection and invokes the transport only with
\* is_committed set and, when a notifier is bound, after its own notifier
\* call returned Ok.
C5_SubmitOrder ==
    /\ Len(notified) > 0 => is_committed
    /\ \A p \in Callers :
          (op[p].name = "submit" /\ pc[p] \in {"lock", "clone", "transport_call", "transport_wait"}) =>
              /\ is_committed
              /\ generator.utxo_context => cid[p] \in hist.acked
    /\ \A i \in 1..Len(submitted) :
          /\ is_committed
          /\ generator.utxo_context => submitted[i].call \in hist.acked

C5_Witness ==
    \E p \in Callers :
        /\ pc[p] = "transport_wait"
        /\ generator.utxo_context
        /\ cid[p] \in hist.acked
        /\ is_committed

\* C6: a submit call that got an error from the transport returns exactly
\* that error (converted into the wallet's error type), has invoked the
\* transport once and the notifier at most once, and leaves is_committed set.
C6_TransportFailure ==
    \A p \in Callers :
        (result[p].of = "submit" /\ RepliesTo(result[p].call) # {}) =>
            \A i \in RepliesTo(result[p].call) :
                hist.replies[i].outcome.kind = "Err" =>
                    /\ result[p].kind = "Err"
                    /\ result[p].val = <<"wallet::Error">> \o hist.replies[i].outcome.val
                    /\ Cardinality(SubmittedBy(result[p].call)) = 1
                    /\ Cardinality(NotifiedBy(result[p].call)) <= 1
                    /\ Cardinality(RepliesTo(result[p].call)) = 1
                    /\ is_committed

C6_Witness ==
    \E p \in Callers :
        /\ result[p].of = "submit"
        /\ result[p].kind = "Err"
        /\ result[p].val[2] = "rpc"
        /\ is_committed

\* C7: every value returned by transaction(), rpc_transaction() and id(),
\* and every wire projection handed to the transport, is derived from one
\* whole payload: the constructed one or the result of one signing call.
C7_NoTornRead ==
    /\ \A p \in Callers :
          result[p].of \in {"id", "transaction", "rpc_transaction"} =>
              \E tx \in hist.produced : result[p].val = ReadValue(result[p].of, tx).val
    /\ \A i \in 1..Len(submitted) :
          \E tx \in hist.produced : submitted[i].rpc = RpcOf(tx)

\* a transaction() call started before the signing call started, and
\* returned that signing call's payload
C7_Witness ==
    \E p \in Callers :
        /\ result[p].of = "transaction"
        /\ result[p].call = 1
        /\ result[p].val # Unsigned

\* the payloads that applying the signing calls S of hist.signs one after
\* another, in any order, can leave
ApplySign(o, tx) ==
    IF o.name = "sign" THEN SignerSign(tx, fields.addresses)
                       ELSE SignWithMultiple(tx, o.keys)

RECURSIVE SerialOutcomes(_, _)
SerialOutcomes(tx, S) ==
    IF S = {} THEN {tx}
    ELSE UNION {SerialOutcomes(ApplySign(hist.signs[i], tx), S \ {i}) : i \in S}

\* C8: once no signing call is in flight, the stored payload is what the
\* completed signing calls leave when applied one after another in some order.
C8_SignsSerialized ==
    (\A p \in Callers : ~InSign(p)) =>
        signable_tx \in SerialOutcomes(Unsigned, 1..Len(hist.signs))

\* C9: no caller holds the payload mutex while the signer, the explicit-key
\* signing routine, the notifier or the transport runs on its behalf.
C9_NoLockAcrossExternal ==
    \A p \in Callers :
        pc[p] \in {"sign_wait", "keys_sign", "notify_wait", "transport_wait"} => mutex # p

\* C10: sign() with no signer bound returns an error result and leaves the
\* payload and is_committed as they were.
C10_NoSignerIsError ==
    [][\A p \in Callers :
          (~generator.signer /\ pc[p] = "idle" /\ op'[p].name = "sign") =>
              /\ result'[p].of = "sign"
              /\ result'[p].kind = "Err"
              /\ signable_tx' = signable_tx
              /\ is_committed' = is_committed]_vars

\* the caller that takes the step
Acts(p) == pc'[p] # pc[p] \/ idx'[p] # idx[p] \/ cid'[p] # cid[p]

\* C11: id() returns the identifier of the payload stored when it returns,
\* and the stored payload (hence that identifier) changes only in the
\* write-back of a signing call; no other step changes it.
C11_IdFollowsPayload ==
    [][/\ \A p \in Callers :
             (Acts(p) /\ op[p].name = "id" /\ pc'[p] = "idle") =>
                 /\ result'[p].of = "id"
                 /\ result'[p].val = TxId(signable_tx)
                 /\ signable_tx' = signable_tx
       /\ TxId(signable_tx') # TxId(signable_tx) =>
             \E p \in Callers : Acts(p) /\ pc[p] = "assign" /\ op[p].name \in SignNames]_vars

C11_Witness ==
    \E p \in Callers :
        /\ result[p].of = "id"
        /\ signable_tx # Unsigned
        /\ Len(hist.signs) = 1
        /\ result[p].val = TxId(signable_tx)

\* C12: in every reachable state the economics fields, utxo_entries and
\* addresses are the values try_new was given, and every accessor returns
\* them; only the payload and is_committed change.
C12_FieldsFixed ==
    /\ fields = hist.ctor
    /\ payment_value = hist.ctor.payment_value
    /\ change_value = hist.ctor.change_value
    /\ input_aggregate_value = hist.ctor.aggregate_input_value
    /\ output_aggregate_value = hist.ctor.aggregate_output_value
    /\ fees = hist.ctor.fees
    /\ is_final = hist.ctor.is_final
    /\ utxo_entries = hist.ctor.utxo_entries
    /\ addresses = hist.ctor.addresses

C12_Witness ==
    /\ is_committed
    /\ signable_tx # Unsigned
    /\ Len(hist.signs) > 0
    /\ Len(submitted) > 0
    /\ fees = hist.ctor.fees

\* C13: in every reachable state is_batch() is the negation of is_final().
C13_BatchIsNotFinal == is_batch = ~is_final

C13_Witness ==
    /\ is_batch
    /\ ~is_final
    /\ is_committed
    /\ Len(hist.signs) > 0

\* C14: when the signer fails inside sign(), the call returns the signer's
\* error (converted into the wallet's error type), the stored payload is
\* still the payload the call read, and is_committed is unchanged; if it is
\* the only call made, the payload is the constructed one.
C14_SignerFailure ==
    [][\A p \in Callers :
          (Acts(p) /\ pc[p] = "sign_wait" /\ pc'[p] = "idle") =>
              /\ result'[p].of = "sign"
              /\ result'[p].kind = "Err"
              /\ result'[p].val \in {<<"wallet::Error", "signer", e>> : e \in SignerErrors}
              /\ signable_tx' = signable_tx
              /\ signable_tx = local[p]
              /\ is_committed' = is_committed
              /\ calls = 1 => signable_tx' = Unsigned]_vars

C14_Witness ==
    \E p \in Callers :
        /\ result[p].of = "sign"
        /\ result[p].kind = "Err"
        /\ signable_tx = Unsigned

\* C15: signing does not depend on is_committed: no step of a signing call
\* changes the flag, and a signing call ends only by writing its result back
\* and returning Ok, by returning the signer's error, or (sign() without a
\* signer) by the missing-signer panic, before commit and after it alike.
C15_SignIgnoresCommit ==
    [][\A p \in Callers :
          (Acts(p) /\ (op[p].name \in SignNames \/ op'[p].name \in SignNames)) =>
              /\ is_committed' = is_committed
              /\ pc'[p] \in {"idle", "panicked"} =>
                    \/ /\ pc[p] = "assign"
                       /\ result'[p].kind = "Ok"
                       /\ signable_tx' = local[p]
                    \/ /\ pc[p] = "sign_wait"
                       /\ result'[p].kind = "Err"
                       /\ result'[p].val[2] = "signer"
                    \/ /\ pc[p] = "idle"
                       /\ op'[p].name = "sign"
                       /\ ~generator.signer
                       /\ result'[p].kind = "Panic"]_vars

\* one caller made a submit call that reached the transport and then a
\* signing call, which returned Ok and replaced the payload
C15_Witness ==
    \E p \in Callers :
        /\ \A q \in Callers \ {p} : cid[q] = 0
        /\ result[p].of \in SignNames
        /\ result[p].kind = "Ok"
        /\ result[p].call = 2
        /\ Len(hist.replies) = 1
        /\ is_committed
        /\ signable_tx # Unsigned

\* C16: the wire projection submit hands to the transport is the projection
\* of the payload stored when rpc_transaction() read it, and that read
\* happens with is_committed set and after the notifier returned Ok; it is
\* not the payload of commit time.
C16_WireFromCurrent ==
    [][\A p \in Callers :
          /\ (Acts(p) /\ op[p].name = "submit" /\ pc[p] = "clone" /\ pc'[p] = "transport_call") =>
                /\ local[p] = signable_tx
                /\ is_committed
                /\ generator.utxo_context => cid[p] \in hist.acked
          /\ (Acts(p) /\ pc[p] = "transport_call") =>
                submitted' = Append(submitted, [call |-> cid[p], rpc |-> RpcOf(local[p]),
                                                allow_orphan |-> TRUE])]_vars

\* a signing call completed between the commit and the read: what was
\* broadcast is not the payload stored at commit time
C16_Witness ==
    \E i \in 1..Len(submitted) :
        /\ hist.atCommit = Unsigned
        /\ Len(hist.signs) = 1
        /\ submitted[i].rpc # RpcOf(Unsigned)
        /\ submitted[i].rpc = RpcOf(signable_tx)

\* a signing call completed after the read: the stored payload is not the
\* payload that was broadcast
C16_Diverged ==
    \E i \in 1..Len(submitted) :
        /\ Len(hist.signs) = 1
        /\ \A p \in Callers : ~InSign(p)
        /\ submitted[i].rpc = RpcOf(Unsigned)
        /\ signable_tx # Unsigned

C18_NoNotifier ==
    ~generator.utxo_context =>
        /\ Len(notified) = 0
        /\ \A p \in Callers :
              (hist.submits = 1 /\ result[p].of = "submit") =>
                  /\ result[p].kind \in {"Ok", "Err"}
                  /\ result[p].kind = "Err" => result[p].val[2] = "rpc"
                  /\ is_committed
                  /\ Len(submitted) = 1
                  /\ submitted[1].call = result[p].call
                  /\ Len(hist.replies) = 1

C18_Witness ==
    \E p \in Callers :
        /\ ~generator.utxo_context
        /\ hist.submits = 1
        /\ result[p].of = "submit"
        /\ result[p].kind = "Ok"
        /\ Len(notified) = 0
        /\ Len(submitted) = 1

\* C19: no call waits for the payload mutex while holding it, every holder
\* of the mutex releases it, and under fair scheduling every started call
\* ends (returns or panics).
C19_NoDeadlock ==
    /\ [](\A p \in Callers : pc[p] \in {"lock", "write_lock"} => mutex # p)
    /\ [](\A p \in Callers : pc[p] \in {"idle", "panicked"} => mutex # p)
    /\ \A p \in Callers : (pc[p] \notin {"idle", "panicked"}) ~> (pc[p] \in {"idle", "panicked"})

\* a caller waits for the mutex while another holds it across the signer call
C19_Witness ==
    \E p, q \in Callers :
        /\ pc[p] = "sign_wait"
        /\ mutex = p
        /\ pc[q] = "lock"

\* C20: no step of a log call changes the stored payload, is_committed or
\* a field fixed by try_new, or invokes the notifier or the transport; the
\* call returns Ok(()).
C20_LogIsInert ==
    [][\A p \in Callers :
          (Acts(p) /\ (op[p].name = "log" \/ op'[p].name = "log")) =>
              /\ signable_tx' = signable_tx
              /\ is_committed' = is_committed
              /\ fields' = fields
              /\ generator' = generator
              /\ notified' = notified
              /\ submitted' = submitted
              /\ pc'[p] = "idle" => (result'[p].of = "log" /\ result'[p].kind = "Ok")]_vars

\* a log call ran from entry to return while a submit call was waiting for
\* the transport
C20_Witness ==
    \E p, q \in Callers :
        /\ result[p].of = "log"
        /\ result[p].call = 2
        /\ pc[q] = "transport_wait"
        /\ is_committed

====
